---- MODULE Spec2Model ----
(***************************************************************************)
(* AuthKit for TanStack Start: the request middleware and the server       *)
(* actions of src/src/server/actions.ts, and the client auth state of      *)
(* src/src/client/AuthKitProvider.tsx.                                     *)
(*                                                                         *)
(* JavaScript objects are functions from property names to values; a       *)
(* property that is not there is a name outside the DOMAIN.  Property      *)
(* values are strings: "undefined" and "null" stand for the two JavaScript *)
(* values, "" for the empty string, anything else for a truthy value.  A   *)
(* claims object is held by reference: the property value names an entry   *)
(* of ClaimsHeap.                                                          *)
(***************************************************************************)
EXTENDS Integers, Sequences, FiniteSets, TLC

VARIABLES
    \* ---- server process (actions.ts)
    configValid,       \* environment: would validateConfig() return normally
    configValidated,   \* actions.ts:160, the module-level latch
    phase,             \* position of the request being served
    ctxAuth,           \* context.auth(): the full AuthResult (server channel)
    sendAuth,          \* sendContext.auth(): the hydration payload
    ret,               \* what the server action of this request did and returned
    \* ---- client auth state (AuthKitProvider.tsx:16-35)
    user, sessionId, organizationId, role, roles, permissions,
    entitlements, featureFlags, impersonator, loading,
    auth,              \* the local `auth` of the continuation that ran last
    calls,             \* refreshAuth / switchToOrganization invocations
    \* ---- session expiry watcher (AuthKitProvider.tsx:127-168)
    onSessionExpired,        \* the prop of the current render
    effects,                 \* number of times the effect body has run
    listener,                \* effect run whose handler is registered, 0 = none
    visibilityChangedCalled, \* the latch of each effect run's closure
    captured,                \* the onSessionExpired each closure captured
    inflight,                \* checkSessionAction calls awaited by each closure
    visibilityState,         \* document.visibilityState
    lastCheck,               \* how the check that completed last was handled
    \* ---- concurrent requests in the middleware (actions.ts:179-214)
    other,             \* a second request in a refresh handler meanwhile
    reqs,              \* where each request of the process is in the middleware
    invocations,       \* middleware invocations so far
    \* ---- client sign-out (AuthKitProvider.tsx:66-91)
    host,              \* window.location.host
    signOutCall,       \* the invocation of handleSignOut
    href,              \* what was assigned to window.location.href
    routerTo           \* the `to` of the last navigate() call

serverVars == <<configValid, configValidated, phase, ctxAuth, sendAuth, ret,
                other>>
mirrorVars == <<user, sessionId, organizationId, role, roles, permissions,
                entitlements, featureFlags, impersonator>>
clientVars == <<mirrorVars, loading, auth, calls>>
watcherVars == <<onSessionExpired, effects, listener, visibilityChangedCalled,
                 captured, inflight, visibilityState, lastCheck>>
latchVars == <<reqs, invocations>>
signOutVars == <<host, signOutCall, href, routerTo>>
vars == <<serverVars, clientVars, watcherVars, latchVars, signOutVars>>

-----------------------------------------------------------------------------
(* Bounds *)

\* An enumerated AuthResult carries at most MaxOpt of the optional
\* pass-through properties, or lacks at most MaxOpt of them.
MaxOpt == 1
\* Client calls that may be outstanding at once.
MaxCalls == 2
\* Runs of the watcher effect (the mount and the later prop changes).
MaxEffects == 3
\* Requests the server process receives, in any overlap.
MaxRequests == 4

-----------------------------------------------------------------------------
(* JavaScript values and objects *)

UNDEF == "undefined"
NULL == "null"

\* !v is false
Truthy(v) == v \notin {UNDEF, NULL, ""}

\* 'k' in o
Has(o, k) == k \in DOMAIN o
\* o.k
Get(o, k) == IF k \in DOMAIN o THEN o[k] ELSE UNDEF
\* const { k1: _, k2, ...rest } = o
Omit(o, ks) == [k \in DOMAIN o \ ks |-> o[k]]

EmptyObject == [k \in {} |-> UNDEF]
\* { user: null }
NoUser == [k \in {"user"} |-> NULL]

\* The claims objects an AuthResult may refer to.
ClaimsHeap ==
    [claims_empty |-> EmptyObject,
     claims_flags |-> [k \in {"feature_flags"} |-> "flag_1"]]

\* claims?.feature_flags
FeatureFlagsOf(claims) ==
    IF claims \in {UNDEF, NULL} THEN UNDEF
    ELSE Get(ClaimsHeap[claims], "feature_flags")

-----------------------------------------------------------------------------
(* The values the external collaborators can produce *)

\* Optional AuthResult properties the code only passes through.
PassKeys == {"organizationId", "role", "roles", "permissions",
             "entitlements", "impersonator", "claims"}

PassValue(k) ==
    CASE k = "organizationId" -> "org_1"
      [] k = "role"           -> "admin"
      [] k = "roles"          -> "roles_1"
      [] k = "permissions"    -> "permissions_1"
      [] k = "entitlements"   -> "entitlements_1"
      [] k = "impersonator"   -> "impersonator_1"

\* The sets of pass-through properties an enumerated AuthResult carries.
OptSets ==
    {S \in SUBSET PassKeys :
        \/ Cardinality(S) <= MaxOpt
        \/ Cardinality(PassKeys \ S) <= MaxOpt}

\* An AuthResult: user, and any of accessToken, sessionId and the
\* pass-through properties (spec.md section 3).  ABSENT is not a value, it
\* tells MkAuth to leave the property out.
ABSENT == "absent"

MkAuth(u, at, sid, S, c) ==
    [k \in {"user"}
           \cup (IF at = ABSENT THEN {} ELSE {"accessToken"})
           \cup (IF sid = ABSENT THEN {} ELSE {"sessionId"})
           \cup S |->
        CASE k = "user"        -> u
          [] k = "accessToken" -> at
          [] k = "sessionId"   -> sid
          [] k = "claims"      -> c
          [] OTHER             -> PassValue(k)]

AuthResults ==
    {MkAuth(u, at, sid, S, c) :
        u \in {NULL, "user_1"},
        at \in {ABSENT, "", "access_1"},
        sid \in {ABSENT, "session_1"},
        S \in OptSets,
        c \in DOMAIN ClaimsHeap}

\* A request whose context and session let the refresh actions reach
\* authkit.refreshSession.
SignedInAuth ==
    MkAuth("user_1", "access_1", "session_1", PassKeys, "claims_flags")

\* authkit.getSession(request): null, or a session whose refreshToken may
\* be missing or empty.
Session(present, refreshToken) ==
    [present |-> present, refreshToken |-> refreshToken]
NullSession == Session(FALSE, UNDEF)
Sessions ==
    {NullSession} \cup {Session(TRUE, t) : t \in {UNDEF, "", "refresh_1"}}

SignedInSession == Session(TRUE, "refresh_1")

\* authkit.refreshSession(...): resolves with an AuthResult or rejects.
Outcome(threw, result, message) ==
    [threw |-> threw, result |-> result, message |-> message]
NoOutcome == Outcome(FALSE, EmptyObject, UNDEF)
Outcomes ==
    {Outcome(FALSE, r, UNDEF) : r \in AuthResults}
        \cup {Outcome(TRUE, EmptyObject, "Refresh failed")}

\* The data of refreshAuthAction and of switchToOrganizationAction.
RefreshOptions ==
    {EmptyObject, [k \in {"organizationId"} |-> "org_1"]}
SwitchData == {[k \in {"organizationId"} |-> "org_1"]}

-----------------------------------------------------------------------------
(* Server: the middleware and the refresh actions (actions.ts) *)

\* The properties of the hydration payload of an authenticated request.
ClientKeys == {"user", "sessionId", "organizationId", "role", "roles",
               "permissions", "entitlements", "featureFlags", "impersonator"}

\* hydratedAuth with the test of authResult.user left out: the literal is
\* built for every request.
hydratedAuth_always_literal(authResult) ==
    [k \in ClientKeys |->
        IF k = "featureFlags"
        THEN FeatureFlagsOf(Get(authResult, "claims"))
        ELSE Get(authResult, k)]

\* actions.ts:191-203.  The object literal names all nine properties, so
\* each of them is there, with the value undefined when authResult lacks it.
hydratedAuth(authResult) ==
    IF Truthy(Get(authResult, "user"))
    THEN [k \in ClientKeys |->
            IF k = "featureFlags"
            THEN FeatureFlagsOf(Get(authResult, "claims"))
            ELSE Get(authResult, k)]
    ELSE NoUser

\* Sanitized without `accessToken: _ignore` in the destructuring.
Sanitized_keeps_token(result) ==
    LET rest == Omit(result, {"claims"})
    IN  [k \in DOMAIN rest \cup {"featureFlags"} |->
            IF k = "featureFlags"
            THEN FeatureFlagsOf(Get(result, "claims"))
            ELSE rest[k]]

\* actions.ts:70-74 and 147-151:
\*   const { accessToken: _ignore, claims, ...rest } = result;
\*   return { ...rest, featureFlags: claims?.feature_flags };
Sanitized(result) ==
    LET rest == Omit(result, {"accessToken", "claims"})
    IN  [k \in DOMAIN rest \cup {"featureFlags"} |->
            IF k = "featureFlags"
            THEN FeatureFlagsOf(Get(result, "claims"))
            ELSE rest[k]]

\* The arguments of authkit.refreshSession (actions.ts:56-64, 133-141).
RefreshArgs(a, session, org) ==
    [accessToken    |-> Get(a, "accessToken"),
     refreshToken   |-> session.refreshToken,
     user           |-> Get(a, "user"),
     impersonator   |-> Get(a, "impersonator"),
     organizationId |-> org]
NoArgs ==
    [accessToken |-> UNDEF, refreshToken |-> UNDEF, user |-> UNDEF,
     impersonator |-> UNDEF, organizationId |-> UNDEF]

\* What a handler did: whether it returned or threw, the value or the error
\* message, whether it read the session, and whether and with what
\* arguments it invoked authkit.refreshSession.
Returned(value, sessionRead, called, args) ==
    [kind |-> "return", value |-> value, error |-> UNDEF,
     sessionRead |-> sessionRead, called |-> called, args |-> args]
Threw(message, args) ==
    [kind |-> "throw", value |-> EmptyObject, error |-> message,
     sessionRead |-> TRUE, called |-> TRUE, args |-> args]

\* refreshAuthAction without the test of the session and its refreshToken.
refreshAuthAction_no_session_test(a, session, outcome, options) ==
    IF \/ ~Truthy(Get(a, "user"))
       \/ ~Truthy(Get(a, "accessToken"))
       \/ ~Truthy(Get(a, "sessionId"))
    THEN Returned(NoUser, FALSE, FALSE, NoArgs)
    ELSE LET args == RefreshArgs(a, session, Get(options, "organizationId"))
         IN  IF outcome.threw THEN Threw(outcome.message, args)
             ELSE IF ~Truthy(Get(outcome.result, "user"))
             THEN Returned(NoUser, TRUE, TRUE, args)
             ELSE Returned(Sanitized(outcome.result), TRUE, TRUE, args)

\* refreshAuthAction without the test of result.user.
refreshAuthAction_no_user_test(a, session, outcome, options) ==
    IF \/ ~Truthy(Get(a, "user"))
       \/ ~Truthy(Get(a, "accessToken"))
       \/ ~Truthy(Get(a, "sessionId"))
    THEN Returned(NoUser, FALSE, FALSE, NoArgs)
    ELSE IF ~session.present \/ ~Truthy(session.refreshToken)
    THEN Returned(NoUser, TRUE, FALSE, NoArgs)
    ELSE LET args == RefreshArgs(a, session, Get(options, "organizationId"))
         IN  IF outcome.threw THEN Threw(outcome.message, args)
             ELSE Returned(Sanitized(outcome.result), TRUE, TRUE, args)

\* actions.ts:39-75
refreshAuthAction(a, session, outcome, options) ==
    IF \/ ~Truthy(Get(a, "user"))
       \/ ~Truthy(Get(a, "accessToken"))
       \/ ~Truthy(Get(a, "sessionId"))
    THEN Returned(NoUser, FALSE, FALSE, NoArgs)
    ELSE IF ~session.present \/ ~Truthy(session.refreshToken)
    THEN Returned(NoUser, TRUE, FALSE, NoArgs)
    ELSE LET args == RefreshArgs(a, session, Get(options, "organizationId"))
         IN  IF outcome.threw THEN Threw(outcome.message, args)
             ELSE IF ~Truthy(Get(outcome.result, "user"))
             THEN Returned(NoUser, TRUE, TRUE, args)
             ELSE Returned(Sanitized(outcome.result), TRUE, TRUE, args)

\* actions.ts:117-152
switchToOrganizationAction(a, session, outcome, data) ==
    IF \/ ~Truthy(Get(a, "user"))
       \/ ~Truthy(Get(a, "accessToken"))
    THEN Returned(NoUser, FALSE, FALSE, NoArgs)
    ELSE IF ~session.present \/ ~Truthy(session.refreshToken)
    THEN Returned(NoUser, TRUE, FALSE, NoArgs)
    ELSE LET args == RefreshArgs(a, session, Get(data, "organizationId"))
         IN  IF outcome.threw THEN Threw(outcome.message, args)
             ELSE IF ~Truthy(Get(outcome.result, "user"))
             THEN Returned(NoUser, TRUE, TRUE, args)
             ELSE Returned(Sanitized(outcome.result), TRUE, TRUE, args)

\* actions.ts:80-83
getAccessTokenAction(a) ==
    IF Truthy(Get(a, "user")) THEN Get(a, "accessToken") ELSE UNDEF

\* actions.ts:88-112.  authkit.refreshSession gets one argument, so its
\* organizationId is undefined; the raw access token of the result is
\* returned.
refreshAccessTokenAction(a, session, outcome) ==
    IF \/ ~Truthy(Get(a, "user"))
       \/ ~Truthy(Get(a, "accessToken"))
    THEN Returned(UNDEF, FALSE, FALSE, NoArgs)
    ELSE IF ~session.present \/ ~Truthy(session.refreshToken)
    THEN Returned(UNDEF, TRUE, FALSE, NoArgs)
    ELSE LET args == RefreshArgs(a, session, UNDEF)
         IN  IF outcome.threw THEN Threw(outcome.message, args)
             ELSE Returned(Get(outcome.result, "accessToken"), TRUE, TRUE,
                           args)

\* The three handlers that read the session and refresh the token, by name.
Handler(op, a, session, outcome, data) ==
    CASE op = "refreshAuth" -> refreshAuthAction(a, session, outcome, data)
      [] op = "switchToOrganization" ->
            switchToOrganizationAction(a, session, outcome, data)
      [] op = "refreshAccessToken" ->
            refreshAccessTokenAction(a, session, outcome)

\* A handler suspended at an await: at authkit.getSession (nothing read
\* yet) or at authkit.refreshSession (called with args).
Suspended(sessionRead, called, args) ==
    [kind |-> "pending", value |-> EmptyObject, error |-> UNDEF,
     sessionRead |-> sessionRead, called |-> called, args |-> args]

\* getAuthFromContext() of server-functions.js: the handlers read the server
\* channel the middleware filled for this request, the full AuthResult
\* (spec.md sections 4.1 and 6).
getAuthFromContext == ctxAuth

\* checkSessionAction that tests the session id instead of the user.
checkSessionAction_session_id(a) == Truthy(Get(a, "sessionId"))

\* actions.ts:15-18
checkSessionAction(a) == Get(a, "user") # NULL

\* The data of getAuthAction.
GetAuthOptions == {EmptyObject, [k \in {"ensureSignedIn"} |-> "true"]}

\* actions.ts:23-34
getAuthAction(a, options) ==
    IF ~Truthy(Get(a, "user"))
    THEN Returned(NoUser, FALSE, FALSE, NoArgs)
    ELSE Returned(Omit(a, {"accessToken"}), FALSE, FALSE, NoArgs)

\* The record kept in ret: the handler, its data, what the collaborators
\* answered when they were asked, and what the handler did.
Handled(op, data, session, outcome, r) ==
    [op |-> op, data |-> data,
     session |-> IF r.sessionRead THEN session ELSE NullSession,
     outcome |-> IF r.called THEN outcome ELSE NoOutcome,
     kind |-> r.kind, value |-> r.value, error |-> r.error,
     sessionRead |-> r.sessionRead, called |-> r.called, args |-> r.args]
NoRet ==
    Handled("none", EmptyObject, NullSession, NoOutcome,
            Returned(EmptyObject, FALSE, FALSE, NoArgs))

\* The handlers share no variable of the module, and each of them suspends
\* twice, so a second request of the same signed-in browser session may run
\* between any two steps of the first.  It passes the middleware, sharing
\* the latch configValidated, and calls refreshAuthAction.  The model keeps
\* where it is suspended and, also after its handler has ended, the refresh
\* token it passed to authkit.refreshSession.
OtherRequest(pc, refreshToken) == [pc |-> pc, refreshToken |-> refreshToken]
NoOther == OtherRequest("none", UNDEF)

ServerInit ==
    /\ configValid \in BOOLEAN
    /\ configValidated = FALSE
    /\ phase = "idle"
    /\ ctxAuth = EmptyObject
    /\ sendAuth = EmptyObject
    /\ ret = NoRet
    /\ other = NoOther

\* actions.ts:182-185: the first step of the middleware.  validateConfig()
\* throws on an invalid configuration, before the latch is set.
MiddlewareValidate ==
    /\ phase = "idle"
    /\ IF configValidated
       THEN /\ phase' = "validated"
            /\ UNCHANGED configValidated
       ELSE IF configValid
       THEN /\ configValidated' = TRUE
            /\ phase' = "validated"
       ELSE /\ phase' = "failed"
            /\ UNCHANGED configValidated
    /\ UNCHANGED <<other, configValid, ctxAuth, sendAuth, ret>>
    /\ UNCHANGED <<clientVars, watcherVars>>
    /\ UNCHANGED <<latchVars, signOutVars>>

\* actions.ts:188-213: the continuation after authkit.withAuth resolved.
MiddlewareResolve ==
    /\ phase = "validated"
    /\ \E authResult \in AuthResults :
          /\ ctxAuth' = authResult
          /\ sendAuth' = hydratedAuth(authResult)
    /\ phase' = "resolved"
    /\ UNCHANGED <<other, configValid, configValidated, ret>>
    /\ UNCHANGED <<clientVars, watcherVars>>
    /\ UNCHANGED <<latchVars, signOutVars>>

\* actions.ts:42-50: the request is a call of refreshAuthAction.  The handler
\* tests the context; it returns at once, or calls authkit.getSession and
\* suspends at that await.
RefreshAuth ==
    /\ phase = "resolved"
    /\ \E options \in RefreshOptions :
          LET r == refreshAuthAction(getAuthFromContext, NullSession,
                                     NoOutcome, options)
          IN  IF r.sessionRead
              THEN /\ ret' = Handled("refreshAuth", options, NullSession, NoOutcome,
                                     Suspended(FALSE, FALSE, NoArgs))
                   /\ phase' = "awaitSession"
              ELSE /\ ret' = Handled("refreshAuth", options, NullSession, NoOutcome, r)
                   /\ phase' = "done"
    /\ UNCHANGED <<other, configValid, configValidated, ctxAuth, sendAuth>>
    /\ UNCHANGED <<clientVars, watcherVars>>
    /\ UNCHANGED <<latchVars, signOutVars>>

\* actions.ts:120-127: the request is a call of switchToOrganizationAction.  The handler
\* tests the context; it returns at once, or calls authkit.getSession and
\* suspends at that await.
SwitchToOrganization ==
    /\ phase = "resolved"
    /\ \E data \in SwitchData :
          LET r == switchToOrganizationAction(getAuthFromContext, NullSession,
                                              NoOutcome, data)
          IN  IF r.sessionRead
              THEN /\ ret' = Handled("switchToOrganization", data, NullSession, NoOutcome,
                                     Suspended(FALSE, FALSE, NoArgs))
                   /\ phase' = "awaitSession"
              ELSE /\ ret' = Handled("switchToOrganization", data, NullSession, NoOutcome, r)
                   /\ phase' = "done"
    /\ UNCHANGED <<other, configValid, configValidated, ctxAuth, sendAuth>>
    /\ UNCHANGED <<clientVars, watcherVars>>
    /\ UNCHANGED <<latchVars, signOutVars>>

\* actions.ts:90-98: the request is a call of refreshAccessTokenAction.  The handler
\* tests the context; it returns at once, or calls authkit.getSession and
\* suspends at that await.
RefreshAccessToken ==
    /\ phase = "resolved"
    /\ LET r == refreshAccessTokenAction(getAuthFromContext, NullSession,
                                            NoOutcome)
          IN  IF r.sessionRead
              THEN /\ ret' = Handled("refreshAccessToken", EmptyObject, NullSession, NoOutcome,
                                     Suspended(FALSE, FALSE, NoArgs))
                   /\ phase' = "awaitSession"
              ELSE /\ ret' = Handled("refreshAccessToken", EmptyObject, NullSession, NoOutcome, r)
                   /\ phase' = "done"
    /\ UNCHANGED <<other, configValid, configValidated, ctxAuth, sendAuth>>
    /\ UNCHANGED <<clientVars, watcherVars>>
    /\ UNCHANGED <<latchVars, signOutVars>>

\* actions.ts:50-56, 98-104 and 127-133: authkit.getSession has settled for
\* the suspended handler.  Without a refresh token the handler returns;
\* with one it calls authkit.refreshSession and suspends again.
SessionSettles(session) ==
    /\ phase = "awaitSession"
    /\ LET r == Handler(ret.op, getAuthFromContext, session, NoOutcome,
                        ret.data)
       IN  IF r.called
           THEN /\ ret' = Handled(ret.op, ret.data, session, NoOutcome,
                                  Suspended(TRUE, TRUE, r.args))
                /\ phase' = "awaitRefresh"
           ELSE /\ ret' = Handled(ret.op, ret.data, session, NoOutcome, r)
                /\ phase' = "done"
    /\ UNCHANGED <<other, configValid, configValidated, ctxAuth, sendAuth>>
    /\ UNCHANGED <<clientVars, watcherVars>>
    /\ UNCHANGED <<latchVars, signOutVars>>

\* actions.ts:56-74, 104-110 and 133-151: authkit.refreshSession has settled
\* for the suspended handler, which runs to its end.
RefreshSettles(outcome) ==
    /\ phase = "awaitRefresh"
    /\ ret' = Handled(ret.op, ret.data, ret.session, outcome,
                      Handler(ret.op, getAuthFromContext, ret.session,
                              outcome, ret.data))
    /\ phase' = "done"
    /\ UNCHANGED <<other, configValid, configValidated, ctxAuth, sendAuth>>
    /\ UNCHANGED <<clientVars, watcherVars>>
    /\ UNCHANGED <<latchVars, signOutVars>>

\* The request is a call of getAccessTokenAction.
GetAccessToken ==
    /\ phase = "resolved"
    /\ ret' = Handled("getAccessToken", EmptyObject, NullSession, NoOutcome,
                  Returned(getAccessTokenAction(getAuthFromContext),
                           FALSE, FALSE, NoArgs))
    /\ phase' = "done"
    /\ UNCHANGED <<other, configValid, configValidated, ctxAuth, sendAuth>>
    /\ UNCHANGED <<clientVars, watcherVars>>
    /\ UNCHANGED <<latchVars, signOutVars>>

\* The data of the second request's call of refreshAuthAction.
OtherData == [k \in {"organizationId"} |-> "org_1"]

\* actions.ts:182-188: the second request enters the middleware, which reads
\* the latch the two requests share, calls validateConfig when it is unset
\* and sets it when validateConfig returned; then it suspends at the await
\* of authkit.withAuth.  On an invalid configuration the request ends here.
OtherEnters ==
    /\ other.pc \in {"none", "done", "failed"}
    /\ IF configValidated
       THEN /\ other' = OtherRequest("awaitAuth", UNDEF)
            /\ UNCHANGED configValidated
       ELSE IF configValid
       THEN /\ other' = OtherRequest("awaitAuth", UNDEF)
            /\ configValidated' = TRUE
       ELSE /\ other' = OtherRequest("failed", UNDEF)
            /\ UNCHANGED configValidated
    /\ UNCHANGED <<configValid, phase, ctxAuth, sendAuth, ret>>
    /\ UNCHANGED <<clientVars, watcherVars>>
    /\ UNCHANGED <<latchVars, signOutVars>>

\* actions.ts:188-213: authkit.withAuth resolves with SignedInAuth for the
\* second request and the middleware hands it on with args.next.
OtherResolves ==
    /\ other.pc = "awaitAuth"
    /\ other' = OtherRequest("resolved", UNDEF)
    /\ UNCHANGED <<configValid, configValidated, phase, ctxAuth, sendAuth,
                   ret>>
    /\ UNCHANGED <<clientVars, watcherVars>>
    /\ UNCHANGED <<latchVars, signOutVars>>

\* actions.ts:42-50: the second request calls refreshAuthAction, which
\* passes the test of the context and suspends at authkit.getSession.
OtherBegins ==
    /\ other.pc = "resolved"
    /\ refreshAuthAction(SignedInAuth, NullSession, NoOutcome,
                         OtherData).sessionRead
    /\ other' = OtherRequest("awaitSession", UNDEF)
    /\ UNCHANGED <<configValid, configValidated, phase, ctxAuth, sendAuth,
                   ret>>
    /\ UNCHANGED <<clientVars, watcherVars>>
    /\ UNCHANGED <<latchVars, signOutVars>>

\* actions.ts:50-56: the session of the second request arrives; its handler
\* returns, or calls authkit.refreshSession and suspends.
OtherSessionSettles(session) ==
    /\ other.pc = "awaitSession"
    /\ LET r == refreshAuthAction(SignedInAuth, session, NoOutcome, OtherData)
       IN  other' = IF r.called
                    THEN OtherRequest("awaitRefresh", r.args.refreshToken)
                    ELSE OtherRequest("done", UNDEF)
    /\ UNCHANGED <<configValid, configValidated, phase, ctxAuth, sendAuth,
                   ret>>
    /\ UNCHANGED <<clientVars, watcherVars>>
    /\ UNCHANGED <<latchVars, signOutVars>>

\* actions.ts:56-74: the refresh of the second request settles and its
\* handler ends, by a return or a throw.
OtherRefreshSettles ==
    /\ other.pc = "awaitRefresh"
    /\ other' = OtherRequest("done", other.refreshToken)
    /\ UNCHANGED <<configValid, configValidated, phase, ctxAuth, sendAuth,
                   ret>>
    /\ UNCHANGED <<clientVars, watcherVars>>
    /\ UNCHANGED <<latchVars, signOutVars>>

\* The request is a call of checkSessionAction.
CheckSession ==
    /\ phase = "resolved"
    /\ ret' = Handled("checkSession", EmptyObject, NullSession, NoOutcome,
                  Returned(checkSessionAction(getAuthFromContext),
                           FALSE, FALSE, NoArgs))
    /\ phase' = "done"
    /\ UNCHANGED <<other, configValid, configValidated, ctxAuth, sendAuth>>
    /\ UNCHANGED <<clientVars, watcherVars>>
    /\ UNCHANGED <<latchVars, signOutVars>>

\* The request is a call of getAuthAction.
GetAuth ==
    /\ phase = "resolved"
    /\ \E options \in GetAuthOptions :
          ret' = Handled("getAuth", options, NullSession, NoOutcome,
                     getAuthAction(getAuthFromContext, options))
    /\ phase' = "done"
    /\ UNCHANGED <<other, configValid, configValidated, ctxAuth, sendAuth>>
    /\ UNCHANGED <<clientVars, watcherVars>>
    /\ UNCHANGED <<latchVars, signOutVars>>

\* The response is sent (a page request has no server action to run) and
\* the request-scoped context is gone; the process goes on to the next
\* request.
NextRequest ==
    /\ phase \in {"resolved", "done", "failed"}
    /\ phase' = "idle"
    /\ ctxAuth' = EmptyObject
    /\ sendAuth' = EmptyObject
    /\ ret' = NoRet
    /\ UNCHANGED <<other, configValid, configValidated>>
    /\ UNCHANGED <<clientVars, watcherVars>>
    /\ UNCHANGED <<latchVars, signOutVars>>

-----------------------------------------------------------------------------
(* Client: the auth state of AuthKitProvider (AuthKitProvider.tsx:12-125) *)

\* The context value consumers read (AuthKitProvider.tsx:170-181), without
\* loading and the operations.
Mirror ==
    [user |-> user, sessionId |-> sessionId,
     organizationId |-> organizationId, role |-> role, roles |-> roles,
     permissions |-> permissions, entitlements |-> entitlements,
     featureFlags |-> featureFlags, impersonator |-> impersonator]

\* What the middleware can put on the hydration channel.
HydrationPayloads == {hydratedAuth(a) : a \in AuthResults}

\* What refreshAuthAction and switchToOrganizationAction can resolve with.
RefreshAuthReturns ==
    {NoUser} \cup
    {r.value : r \in {x \in {refreshAuthAction(SignedInAuth, SignedInSession,
                                 o, EmptyObject) : o \in Outcomes} :
                        x.kind = "return"}}
SwitchReturns ==
    {NoUser} \cup
    {r.value : r \in {x \in {switchToOrganizationAction(SignedInAuth,
                                 SignedInSession, o,
                                 [k \in {"organizationId"} |-> "org_1"]) :
                                 o \in Outcomes} :
                        x.kind = "return"}}

\* What a server function call can reject with: an Error (its message, and
\* what String() makes of it), or a value that is not an Error.
Thrown(isError, message, str) ==
    [isError |-> isError, message |-> message, str |-> str]
NoThrown == Thrown(FALSE, UNDEF, UNDEF)
Rejections ==
    {Thrown(TRUE, "Refresh failed", "Error: Refresh failed"),
     Thrown(TRUE, "Failed to fetch", "TypeError: Failed to fetch"),
     Thrown(FALSE, UNDEF, "boom")}

\* AuthKitProvider.tsx:58 and 121:
\*   error instanceof Error ? { error: error.message } : { error: String(error) }
ErrorDescriptor(error) ==
    IF error.isError THEN error.message ELSE error.str

\* How a client operation ended: it returned undefined, returned the
\* descriptor { error }, or threw.
Completion(how, error) == [how |-> how, error |-> error]
NotCompleted == Completion("none", UNDEF)

\* One invocation of refreshAuth or switchToOrganization.
Call(pc, kind, data, settled, thrown, completion) ==
    [pc |-> pc, kind |-> kind, data |-> data, settled |-> settled,
     thrown |-> thrown, completion |-> completion]
IdleCall == Call("idle", "none", EmptyObject, "none", NoThrown, NotCompleted)
CallIds == 1..MaxCalls

\* InitialState with featureFlags starting from useState(undefined).
InitialState_no_flags(initialAuth) ==
    [user |-> initialAuth["user"],
     sessionId |-> IF Truthy(initialAuth["user"])
                   THEN Get(initialAuth, "sessionId") ELSE UNDEF,
     organizationId |-> IF Has(initialAuth, "organizationId")
                        THEN initialAuth["organizationId"] ELSE UNDEF,
     role |-> IF Has(initialAuth, "role") THEN initialAuth["role"] ELSE UNDEF,
     roles |-> IF Has(initialAuth, "roles")
               THEN initialAuth["roles"] ELSE UNDEF,
     permissions |-> IF Has(initialAuth, "permissions")
                     THEN initialAuth["permissions"] ELSE UNDEF,
     entitlements |-> IF Has(initialAuth, "entitlements")
                      THEN initialAuth["entitlements"] ELSE UNDEF,
     featureFlags |-> UNDEF,
     impersonator |-> IF Has(initialAuth, "impersonator")
                      THEN initialAuth["impersonator"] ELSE UNDEF]

\* AuthKitProvider.tsx:13-34: the initial values of the nine useState cells.
InitialState(initialAuth) ==
    [user |-> initialAuth["user"],
     sessionId |-> IF Truthy(initialAuth["user"])
                   THEN Get(initialAuth, "sessionId") ELSE UNDEF,
     organizationId |-> IF Has(initialAuth, "organizationId")
                        THEN initialAuth["organizationId"] ELSE UNDEF,
     role |-> IF Has(initialAuth, "role") THEN initialAuth["role"] ELSE UNDEF,
     roles |-> IF Has(initialAuth, "roles")
               THEN initialAuth["roles"] ELSE UNDEF,
     permissions |-> IF Has(initialAuth, "permissions")
                     THEN initialAuth["permissions"] ELSE UNDEF,
     entitlements |-> IF Has(initialAuth, "entitlements")
                      THEN initialAuth["entitlements"] ELSE UNDEF,
     featureFlags |-> IF Has(initialAuth, "featureFlags")
                      THEN initialAuth["featureFlags"] ELSE UNDEF,
     impersonator |-> IF Has(initialAuth, "impersonator")
                      THEN initialAuth["impersonator"] ELSE UNDEF]

\* refreshAuthState with setters that run only for the properties auth has:
\* role keeps its value when auth has no role.
refreshAuthState_stale_role(a) ==
    [user |-> a["user"],
     sessionId |-> IF Truthy(a["user"]) THEN Get(a, "sessionId") ELSE UNDEF,
     organizationId |-> IF Has(a, "organizationId")
                        THEN a["organizationId"] ELSE UNDEF,
     role |-> IF Has(a, "role") THEN a["role"] ELSE role,
     roles |-> IF Has(a, "roles") THEN a["roles"] ELSE UNDEF,
     permissions |-> IF Has(a, "permissions") THEN a["permissions"] ELSE UNDEF,
     entitlements |-> IF Has(a, "entitlements")
                      THEN a["entitlements"] ELSE UNDEF,
     featureFlags |-> IF Has(a, "featureFlags")
                      THEN a["featureFlags"] ELSE UNDEF,
     impersonator |-> IF Has(a, "impersonator")
                      THEN a["impersonator"] ELSE UNDEF]

\* AuthKitProvider.tsx:48-56: the nine setters of refreshAuth.
refreshAuthState(a) ==
    [user |-> a["user"],
     sessionId |-> IF Truthy(a["user"]) THEN Get(a, "sessionId") ELSE UNDEF,
     organizationId |-> IF Has(a, "organizationId")
                        THEN a["organizationId"] ELSE UNDEF,
     role |-> IF Has(a, "role") THEN a["role"] ELSE UNDEF,
     roles |-> IF Has(a, "roles") THEN a["roles"] ELSE UNDEF,
     permissions |-> IF Has(a, "permissions") THEN a["permissions"] ELSE UNDEF,
     entitlements |-> IF Has(a, "entitlements")
                      THEN a["entitlements"] ELSE UNDEF,
     featureFlags |-> IF Has(a, "featureFlags")
                      THEN a["featureFlags"] ELSE UNDEF,
     impersonator |-> IF Has(a, "impersonator")
                      THEN a["impersonator"] ELSE UNDEF]

\* handleSwitchToOrganizationState whose no-user branch clears user and
\* sessionId only.
handleSwitchToOrganizationState_partial_clear(a) ==
    IF ~Truthy(a["user"])
    THEN [user |-> NULL, sessionId |-> UNDEF,
          organizationId |-> organizationId, role |-> role, roles |-> roles,
          permissions |-> permissions, entitlements |-> entitlements,
          featureFlags |-> featureFlags, impersonator |-> impersonator]
    ELSE [user |-> a["user"],
          sessionId |-> Get(a, "sessionId"),
          organizationId |-> Get(a, "organizationId"),
          role |-> Get(a, "role"),
          roles |-> Get(a, "roles"),
          permissions |-> Get(a, "permissions"),
          entitlements |-> Get(a, "entitlements"),
          featureFlags |-> Get(a, "featureFlags"),
          impersonator |-> Get(a, "impersonator")]

\* AuthKitProvider.tsx:98-119: the nine setters of handleSwitchToOrganization.
handleSwitchToOrganizationState(a) ==
    IF ~Truthy(a["user"])
    THEN [user |-> NULL, sessionId |-> UNDEF, organizationId |-> UNDEF,
          role |-> UNDEF, roles |-> UNDEF, permissions |-> UNDEF,
          entitlements |-> UNDEF, featureFlags |-> UNDEF,
          impersonator |-> UNDEF]
    ELSE [user |-> a["user"],
          sessionId |-> Get(a, "sessionId"),
          organizationId |-> Get(a, "organizationId"),
          role |-> Get(a, "role"),
          roles |-> Get(a, "roles"),
          permissions |-> Get(a, "permissions"),
          entitlements |-> Get(a, "entitlements"),
          featureFlags |-> Get(a, "featureFlags"),
          impersonator |-> Get(a, "impersonator")]

\* SetMirror when an await separates setUser from the other setters: the
\* render after the first part shows the new user with the old fields.
SetMirror_user_first(s) ==
    /\ user' = s.user
    /\ UNCHANGED <<sessionId, organizationId, role, roles, permissions,
                   entitlements, featureFlags, impersonator>>

\* The nine state cells take the values of s in one render.
SetMirror(s) ==
    /\ user' = s.user
    /\ sessionId' = s.sessionId
    /\ organizationId' = s.organizationId
    /\ role' = s.role
    /\ roles' = s.roles
    /\ permissions' = s.permissions
    /\ entitlements' = s.entitlements
    /\ featureFlags' = s.featureFlags
    /\ impersonator' = s.impersonator

\* AuthKitProvider.tsx:13-35: the state after the provider has mounted.
\* getGlobalStartContext()?.context?.auth?.() may yield nothing, and then
\* initialAuth is { user: null }.
ClientInit ==
    \E hydrated \in BOOLEAN, payload \in HydrationPayloads :
       LET initialAuth == IF hydrated THEN payload ELSE NoUser
       IN  /\ auth = initialAuth
           /\ user = InitialState(initialAuth).user
           /\ sessionId = InitialState(initialAuth).sessionId
           /\ organizationId = InitialState(initialAuth).organizationId
           /\ role = InitialState(initialAuth).role
           /\ roles = InitialState(initialAuth).roles
           /\ permissions = InitialState(initialAuth).permissions
           /\ entitlements = InitialState(initialAuth).entitlements
           /\ featureFlags = InitialState(initialAuth).featureFlags
           /\ impersonator = InitialState(initialAuth).impersonator
           /\ loading = FALSE
           /\ calls = [c \in CallIds |-> IdleCall]

\* What refreshAuth is called with: nothing (the default {}), or an object
\* with ensureSignedIn or organizationId.
RefreshAuthArguments ==
    {EmptyObject,
     [k \in {"organizationId"} |-> "org_1"],
     [k \in {"ensureSignedIn"} |-> "true"]}

\* AuthKitProvider.tsx:43 and 46: the parameter is destructured with
\* ensureSignedIn defaulting to false, and the data of refreshAuthAction is
\* the literal { ensureSignedIn, organizationId }, which has both
\* properties whatever the caller passed.
RefreshAuthData(options) ==
    [ensureSignedIn |-> IF Get(options, "ensureSignedIn") = UNDEF
                        THEN "false" ELSE options["ensureSignedIn"],
     organizationId |-> Get(options, "organizationId")]

\* AuthKitProvider.tsx:43-46: refreshAuth up to its await.
CallRefreshAuth(c, options) ==
    /\ calls[c].pc # "waiting"
    /\ loading' = TRUE
    /\ calls' = [calls EXCEPT ![c] =
                    Call("waiting", "refreshAuth", RefreshAuthData(options),
                         "none", NoThrown, NotCompleted)]
    /\ UNCHANGED <<mirrorVars, auth>>
    /\ UNCHANGED <<serverVars, watcherVars>>
    /\ UNCHANGED <<latchVars, signOutVars>>

\* AuthKitProvider.tsx:46-61: refreshAuthAction resolved with a; the nine
\* setters and the finally block run without an await in between.
ResolveRefreshAuth(c, a) ==
    /\ calls[c].pc = "waiting"
    /\ calls[c].kind = "refreshAuth"
    /\ auth' = a
    /\ SetMirror(refreshAuthState(a))
    /\ loading' = FALSE
    /\ calls' = [calls EXCEPT ![c] =
                    Call("done", "refreshAuth", EmptyObject, "resolved",
                         NoThrown, Completion("undefined", UNDEF))]
    /\ UNCHANGED <<serverVars, watcherVars>>
    /\ UNCHANGED <<latchVars, signOutVars>>

\* RejectRefreshAuth with setLoading(false) after the try statement instead
\* of in a finally block: the return in catch skips it.
RejectRefreshAuth_no_finally(c, error) ==
    /\ calls[c].pc = "waiting"
    /\ calls[c].kind = "refreshAuth"
    /\ calls' = [calls EXCEPT ![c] =
                    Call("done", "refreshAuth", EmptyObject, "rejected",
                         error,
                         Completion("descriptor", ErrorDescriptor(error)))]
    /\ UNCHANGED <<mirrorVars, auth, loading>>
    /\ UNCHANGED <<serverVars, watcherVars>>
    /\ UNCHANGED <<latchVars, signOutVars>>

\* AuthKitProvider.tsx:57-61: refreshAuthAction rejected with error.
RejectRefreshAuth(c, error) ==
    /\ calls[c].pc = "waiting"
    /\ calls[c].kind = "refreshAuth"
    /\ loading' = FALSE
    /\ calls' = [calls EXCEPT ![c] =
                    Call("done", "refreshAuth", EmptyObject, "rejected",
                         error,
                         Completion("descriptor", ErrorDescriptor(error)))]
    /\ UNCHANGED <<mirrorVars, auth>>
    /\ UNCHANGED <<serverVars, watcherVars>>
    /\ UNCHANGED <<latchVars, signOutVars>>

\* AuthKitProvider.tsx:93-96: handleSwitchToOrganization up to its await.
CallSwitchToOrganization(c, org) ==
    /\ calls[c].pc # "waiting"
    /\ loading' = TRUE
    /\ calls' = [calls EXCEPT ![c] =
                    Call("waiting", "switchToOrganization",
                         [k \in {"organizationId"} |-> org], "none",
                         NoThrown, NotCompleted)]
    /\ UNCHANGED <<mirrorVars, auth>>
    /\ UNCHANGED <<serverVars, watcherVars>>
    /\ UNCHANGED <<latchVars, signOutVars>>

\* ResolveSwitchToOrganization with a guard against overlapping calls that
\* keeps the first response: the result is dropped when another call has
\* resolved already.
ResolveSwitchToOrganization_first_wins(c, a) ==
    /\ calls[c].pc = "waiting"
    /\ calls[c].kind = "switchToOrganization"
    /\ auth' = a
    /\ IF \E d \in CallIds \ {c} : calls[d].settled = "resolved"
       THEN UNCHANGED mirrorVars
       ELSE SetMirror(handleSwitchToOrganizationState(a))
    /\ loading' = FALSE
    /\ calls' = [calls EXCEPT ![c] =
                    Call("done", "switchToOrganization", EmptyObject,
                         "resolved", NoThrown,
                         Completion("undefined", UNDEF))]
    /\ UNCHANGED <<serverVars, watcherVars>>
    /\ UNCHANGED <<latchVars, signOutVars>>

\* AuthKitProvider.tsx:96-124: switchToOrganizationAction resolved with a.
ResolveSwitchToOrganization(c, a) ==
    /\ calls[c].pc = "waiting"
    /\ calls[c].kind = "switchToOrganization"
    /\ auth' = a
    /\ SetMirror(handleSwitchToOrganizationState(a))
    /\ loading' = FALSE
    /\ calls' = [calls EXCEPT ![c] =
                    Call("done", "switchToOrganization", EmptyObject,
                         "resolved", NoThrown,
                         Completion("undefined", UNDEF))]
    /\ UNCHANGED <<serverVars, watcherVars>>
    /\ UNCHANGED <<latchVars, signOutVars>>

\* RejectSwitchToOrganization with a catch block that treats the failure as
\* a lost session and clears the nine fields.
RejectSwitchToOrganization_signs_out(c, error) ==
    /\ calls[c].pc = "waiting"
    /\ calls[c].kind = "switchToOrganization"
    /\ SetMirror(handleSwitchToOrganizationState(NoUser))
    /\ loading' = FALSE
    /\ calls' = [calls EXCEPT ![c] =
                    Call("done", "switchToOrganization", EmptyObject,
                         "rejected", error,
                         Completion("descriptor", ErrorDescriptor(error)))]
    /\ UNCHANGED auth
    /\ UNCHANGED <<serverVars, watcherVars>>
    /\ UNCHANGED <<latchVars, signOutVars>>

\* AuthKitProvider.tsx:120-124: switchToOrganizationAction rejected.
RejectSwitchToOrganization(c, error) ==
    /\ calls[c].pc = "waiting"
    /\ calls[c].kind = "switchToOrganization"
    /\ loading' = FALSE
    /\ calls' = [calls EXCEPT ![c] =
                    Call("done", "switchToOrganization", EmptyObject,
                         "rejected", error,
                         Completion("descriptor", ErrorDescriptor(error)))]
    /\ UNCHANGED <<mirrorVars, auth>>
    /\ UNCHANGED <<serverVars, watcherVars>>
    /\ UNCHANGED <<latchVars, signOutVars>>

-----------------------------------------------------------------------------
(* Client: the session expiry watcher (AuthKitProvider.tsx:127-168) *)

\* The onSessionExpired prop: false, left out, or a function.  A function
\* written inline in the parent is a new function on every render.
Props == {"false", UNDEF, "callback_1", "callback_2"}
EffectIds == 1..MaxEffects

\* What a checkSessionAction call settles with.  A message is the sequence
\* of its fragments, so that includes() has something to search.
CheckOutcome(settled, hasSession, isError, message) ==
    [settled |-> settled, hasSession |-> hasSession, isError |-> isError,
     message |-> message]
NoCheckOutcome == CheckOutcome("none", FALSE, FALSE, <<>>)
CheckOutcomes ==
    {CheckOutcome("resolved", TRUE, FALSE, <<>>),
     CheckOutcome("resolved", FALSE, FALSE, <<>>),
     CheckOutcome("rejected", FALSE, TRUE, <<"Failed to fetch">>),
     CheckOutcome("rejected", FALSE, TRUE,
                  <<"TypeError: ", "Failed to fetch", " (offline)">>),
     CheckOutcome("rejected", FALSE, TRUE, <<"Internal Server Error">>),
     CheckOutcome("rejected", FALSE, FALSE, <<"Failed to fetch">>)}

\* message.includes(fragment)
Includes(message, fragment) ==
    \E i \in DOMAIN message : message[i] = fragment

\* ExpiryHandling without the test of the message: every caught Error,
\* 'Session expired' included, is handled as an expiry.
ExpiryHandling_any_error(outcome, cb) ==
    LET caught == outcome.settled = "rejected" \/ ~outcome.hasSession
        isError == IF outcome.settled = "rejected"
                   THEN outcome.isError ELSE TRUE
    IN  IF caught /\ isError
        THEN IF Truthy(cb) THEN "callback" ELSE "reload"
        ELSE "none"

\* AuthKitProvider.tsx:142-154: what the handler of a closure that captured
\* cb does when its check settles with outcome.
ExpiryHandling(outcome, cb) ==
    LET caught == outcome.settled = "rejected" \/ ~outcome.hasSession
        isError == IF outcome.settled = "rejected"
                   THEN outcome.isError ELSE TRUE
        message == IF outcome.settled = "rejected"
                   THEN outcome.message ELSE <<"Session expired">>
    IN  IF caught /\ isError /\ Includes(message, "Failed to fetch")
        THEN IF Truthy(cb) THEN "callback" ELSE "reload"
        ELSE "none"

Checked(g, outcome, handling, callback) ==
    [effect |-> g, outcome |-> outcome, handling |-> handling,
     callback |-> callback]

\* WatcherInit without the early return for onSessionExpired === false.
WatcherInit_no_opt_out ==
    /\ onSessionExpired \in Props
    /\ effects = 1
    /\ listener = 1
    /\ visibilityChangedCalled = [g \in EffectIds |-> FALSE]
    /\ captured = [g \in EffectIds |->
                      IF g = 1 THEN onSessionExpired ELSE UNDEF]
    /\ inflight = [g \in EffectIds |-> 0]
    /\ visibilityState \in {"visible", "hidden"}
    /\ lastCheck = Checked(0, NoCheckOutcome, "none", UNDEF)

\* AuthKitProvider.tsx:127-168: the effect body runs on mount.
WatcherInit ==
    /\ onSessionExpired \in Props
    /\ effects = 1
    /\ listener = IF onSessionExpired = "false" THEN 0 ELSE 1
    /\ visibilityChangedCalled = [g \in EffectIds |-> FALSE]
    /\ captured = [g \in EffectIds |->
                      IF g = 1 THEN onSessionExpired ELSE UNDEF]
    /\ inflight = [g \in EffectIds |-> 0]
    /\ visibilityState \in {"visible", "hidden"}
    /\ lastCheck = Checked(0, NoCheckOutcome, "none", UNDEF)

\* AuthKitProvider.tsx:134-143: handleVisibilityChange of the registered
\* closure, up to its await, with the document in visibility state v.
HandleVisibilityChange(v) ==
    IF listener = 0
    THEN UNCHANGED <<visibilityChangedCalled, inflight>>
    ELSE IF visibilityChangedCalled[listener]
    THEN UNCHANGED <<visibilityChangedCalled, inflight>>
    ELSE IF v = "visible"
    THEN /\ visibilityChangedCalled' =
                [visibilityChangedCalled EXCEPT ![listener] = TRUE]
         /\ inflight' = [inflight EXCEPT ![listener] = @ + 1]
    ELSE UNCHANGED <<visibilityChangedCalled, inflight>>

\* The tab becomes visible or hidden: a visibilitychange event.
VisibilityChangeEvent(v) ==
    /\ v # visibilityState
    /\ visibilityState' = v
    /\ HandleVisibilityChange(v)
    /\ UNCHANGED <<onSessionExpired, effects, listener, captured, lastCheck>>
    /\ UNCHANGED <<serverVars, clientVars>>
    /\ UNCHANGED <<latchVars, signOutVars>>

\* The window gets the focus: a focus event.
FocusEvent ==
    /\ HandleVisibilityChange(visibilityState)
    /\ UNCHANGED <<onSessionExpired, effects, listener, captured, lastCheck,
                   visibilityState>>
    /\ UNCHANGED <<serverVars, clientVars>>
    /\ UNCHANGED <<latchVars, signOutVars>>

\* AuthKitProvider.tsx:143-157: the check awaited by closure g settles.
CheckSettles(g, outcome) ==
    /\ inflight[g] > 0
    /\ inflight' = [inflight EXCEPT ![g] = @ - 1]
    /\ visibilityChangedCalled' = [visibilityChangedCalled EXCEPT ![g] = FALSE]
    /\ lastCheck' = Checked(g, outcome, ExpiryHandling(outcome, captured[g]),
                        IF ExpiryHandling(outcome, captured[g]) = "callback"
                        THEN captured[g] ELSE UNDEF)
    /\ UNCHANGED <<onSessionExpired, effects, listener, captured,
                   visibilityState>>
    /\ UNCHANGED <<serverVars, clientVars>>
    /\ UNCHANGED <<latchVars, signOutVars>>

\* The provider is rendered with another onSessionExpired: the dependency
\* of the effect changed, so its cleanup removes the listeners
\* (AuthKitProvider.tsx:164-167) and the body runs again, with a new
\* visibilityChangedCalled and a new handler.
ChangeOnSessionExpired(p) ==
    /\ p # onSessionExpired
    /\ effects < MaxEffects
    /\ onSessionExpired' = p
    /\ effects' = effects + 1
    /\ captured' = [captured EXCEPT ![effects + 1] = p]
    /\ listener' = IF p = "false" THEN 0 ELSE effects + 1
    /\ UNCHANGED <<visibilityChangedCalled, inflight, visibilityState,
                   lastCheck>>
    /\ UNCHANGED <<serverVars, clientVars>>
    /\ UNCHANGED <<latchVars, signOutVars>>

-----------------------------------------------------------------------------
(* Concurrent requests in the middleware (actions.ts:160, 179-214) *)

\* The middleware is an async function: from its entry to the await of
\* authkit.withAuth it runs without interruption, and any number of requests
\* may be suspended at that await at the same time.  All of them share the
\* module-level variable configValidated.

ReqIds == 1..MaxRequests

\* pc: "new" (not received yet), "awaiting" (suspended at the await of
\*     authkit.withAuth), "served" (args.next was called), "failed" (the
\*     middleware threw);
\* seq: the position of the invocation among the invocations of the process
\*     (0 before the request is received);
\* validated: validateConfig was called during the invocation;
\* resolver: authkit.withAuth was called during the invocation;
\* channels: args.next was called with context.auth and sendContext.auth.
Request(pc, seq, validated, resolver, channels) ==
    [pc |-> pc, seq |-> seq, validated |-> validated, resolver |-> resolver,
     channels |-> channels]

NewRequest == Request("new", 0, FALSE, FALSE, FALSE)

\* actions.ts:180-188, for a latch set before validateConfig is called.
MiddlewareEnter_latch_first(r) ==
    /\ reqs[r].pc = "new"
    /\ invocations' = invocations + 1
    /\ configValidated' = TRUE
    /\ IF configValidated
       THEN reqs' = [reqs EXCEPT ![r] =
                Request("awaiting", invocations + 1, FALSE, TRUE, FALSE)]
       ELSE IF configValid
       THEN reqs' = [reqs EXCEPT ![r] =
                Request("awaiting", invocations + 1, TRUE, TRUE, FALSE)]
       ELSE reqs' = [reqs EXCEPT ![r] =
                Request("failed", invocations + 1, TRUE, FALSE, FALSE)]
    /\ UNCHANGED <<other, configValid, phase, ctxAuth, sendAuth, ret>>
    /\ UNCHANGED <<clientVars, watcherVars, signOutVars>>

\* actions.ts:180-188, for a middleware that never sets the latch.
MiddlewareEnter_no_latch(r) ==
    /\ reqs[r].pc = "new"
    /\ invocations' = invocations + 1
    /\ IF configValid
       THEN reqs' = [reqs EXCEPT ![r] =
                Request("awaiting", invocations + 1, TRUE, TRUE, FALSE)]
       ELSE reqs' = [reqs EXCEPT ![r] =
                Request("failed", invocations + 1, TRUE, FALSE, FALSE)]
    /\ UNCHANGED <<other, configValid, configValidated, phase, ctxAuth, sendAuth, ret>>
    /\ UNCHANGED <<clientVars, watcherVars, signOutVars>>

\* actions.ts:180-188: request r enters the middleware.  With the latch unset
\* it calls validateConfig; a throw leaves the middleware there, a return is
\* followed by the assignment of the latch.  Then authkit.withAuth is called
\* and the invocation suspends at the await.
MiddlewareEnter(r) ==
    /\ reqs[r].pc = "new"
    /\ invocations' = invocations + 1
    /\ IF configValidated
       THEN /\ reqs' = [reqs EXCEPT ![r] =
                  Request("awaiting", invocations + 1, FALSE, TRUE, FALSE)]
            /\ UNCHANGED configValidated
       ELSE IF configValid
       THEN /\ reqs' = [reqs EXCEPT ![r] =
                  Request("awaiting", invocations + 1, TRUE, TRUE, FALSE)]
            /\ configValidated' = TRUE
       ELSE /\ reqs' = [reqs EXCEPT ![r] =
                  Request("failed", invocations + 1, TRUE, FALSE, FALSE)]
            /\ UNCHANGED configValidated
    /\ UNCHANGED <<other, configValid, phase, ctxAuth, sendAuth, ret>>
    /\ UNCHANGED <<clientVars, watcherVars, signOutVars>>

\* actions.ts:188-213: authkit.withAuth has settled for request r; the
\* invocation resumes, builds the payload and calls args.next with both
\* channels.
MiddlewareResume(r) ==
    /\ reqs[r].pc = "awaiting"
    /\ reqs' = [reqs EXCEPT ![r].pc = "served", ![r].channels = TRUE]
    /\ UNCHANGED <<other, invocations, configValid, configValidated, phase, ctxAuth,
                   sendAuth, ret>>
    /\ UNCHANGED <<clientVars, watcherVars, signOutVars>>

\* A process that has received no request, with either configuration.
LatchInit ==
    /\ configValid \in BOOLEAN
    /\ configValidated = FALSE
    /\ phase = "idle"
    /\ ctxAuth = EmptyObject
    /\ sendAuth = EmptyObject
    /\ ret = NoRet
    /\ other = NoOther
    /\ reqs = [r \in ReqIds |-> NewRequest]
    /\ invocations = 0

-----------------------------------------------------------------------------
(* Client sign-out (AuthKitProvider.tsx:66-91) *)

\* A string is the sequence of its fragments, so that startsWith and includes
\* are computed on it; the empty sequence is the empty string.
EmptyString == << >>

\* String.prototype.startsWith('http') (AuthKitProvider.tsx:76).
StartsWithHttp(location) == Len(location) >= 1 /\ location[1] = "http"

\* String.prototype.includes(window.location.host) (AuthKitProvider.tsx:76).
IncludesHost(location, h) == \E i \in 1..Len(location) : location[i] = h

\* window.location.host of the pages the provider is mounted in.
Hosts == {"app.example.com", "localhost:3000"}

\* The Location headers a redirect thrown by signOut carries for a page on
\* host h: a path of the application, an absolute URL of the application,
\* and the logout URL of the identity provider without and with a return
\* address on the application's host.
Locations(h) ==
    { <<"/", "signed-out">>,
      <<"http", "s://", h, "/signed-out">>,
      <<"http", "s://", "api.workos.com", "/sessions/logout?session_id=s1">>,
      <<"http", "s://", "api.workos.com", "/sessions/logout?return_to=",
        "http", "s://", h, "/">> }

\* What the awaited signOut call settles with: it resolves, or rejects with
\* a Response (whose headers may hold a Location) or with another value.
SignOutOutcome(kind, hasLocation, location) ==
    [kind |-> kind, hasLocation |-> hasLocation, location |-> location]

NoSignOutOutcome == SignOutOutcome("none", FALSE, EmptyString)

SignOutOutcomes(h) ==
    {SignOutOutcome("resolved", FALSE, EmptyString),
     SignOutOutcome("error", FALSE, EmptyString),
     SignOutOutcome("response", FALSE, EmptyString),
     SignOutOutcome("response", TRUE, EmptyString)}
    \cup {SignOutOutcome("response", TRUE, l) : l \in Locations(h)}

\* The returnTo the caller passes ("undefined" when it passes none).
ReturnTos == {UNDEF, "/goodbye"}

\* How handleSignOut ends: it returns or throws `rethrown`, after assigning
\* window.location.href (assigned) or calling navigate (navigated) with
\* `location`.
SignOutResult(completion, rethrown, assigned, navigated, location) ==
    [completion |-> completion, rethrown |-> rethrown, assigned |-> assigned,
     navigated |-> navigated, location |-> location]

NoSignOutResult ==
    SignOutResult("none", NoSignOutOutcome, FALSE, FALSE, EmptyString)

\* AuthKitProvider.tsx:76.
isExternal(location, h) ==
    StartsWithHttp(location) /\ ~IncludesHost(location, h)

\* AuthKitProvider.tsx:68-88: what handleSignOut does once the awaited
\* signOut call has settled with `outcome` in a page on host h.
handleSignOut(outcome, h) ==
    IF outcome.kind = "resolved"
    THEN SignOutResult("returned", NoSignOutOutcome, FALSE, FALSE,
                       EmptyString)
    ELSE IF /\ outcome.kind = "response"
            /\ outcome.hasLocation
            /\ outcome.location # EmptyString
    THEN IF isExternal(outcome.location, h)
         THEN SignOutResult("returned", NoSignOutOutcome, TRUE, FALSE,
                            outcome.location)
         ELSE SignOutResult("returned", NoSignOutOutcome, FALSE, TRUE,
                            outcome.location)
    ELSE SignOutResult("threw", outcome, FALSE, FALSE, EmptyString)

\* pc: "idle", "waiting" (suspended at the await of signOut), "done";
\* returnTo: the argument of handleSignOut; data: the data of the signOut
\* call; outcome: what the signOut call settled with; result: how
\* handleSignOut ended.
SignOutCall(pc, returnTo, data, outcome, result) ==
    [pc |-> pc, returnTo |-> returnTo, data |-> data, outcome |-> outcome,
     result |-> result]

IdleSignOut ==
    SignOutCall("idle", UNDEF, EmptyObject, NoSignOutOutcome, NoSignOutResult)

\* A mounted provider in a page on either host; signOut was not called.
SignOutInit ==
    /\ host \in Hosts
    /\ signOutCall = IdleSignOut
    /\ href = EmptyString
    /\ routerTo = EmptyString

\* AuthKitProvider.tsx:67-69: signOut({returnTo}) is called while the page
\* is still loaded and no earlier call is pending.
CallSignOut(returnTo) ==
    /\ signOutCall.pc # "waiting"
    /\ href = EmptyString
    /\ signOutCall' = SignOutCall("waiting", returnTo,
                                  [k \in {"returnTo"} |-> returnTo],
                                  NoSignOutOutcome, NoSignOutResult)
    /\ UNCHANGED <<host, href, routerTo>>
    /\ UNCHANGED <<serverVars, clientVars, watcherVars, latchVars>>

\* AuthKitProvider.tsx:69-88: the signOut call settles and handleSignOut
\* runs to its end.
SignOutSettles(outcome) ==
    /\ signOutCall.pc = "waiting"
    /\ LET result == handleSignOut(outcome, host) IN
        /\ signOutCall' = [signOutCall EXCEPT !.pc = "done",
                                              !.outcome = outcome,
                                              !.result = result]
        /\ href' = IF result.assigned THEN result.location ELSE href
        /\ routerTo' = IF result.navigated THEN result.location ELSE routerTo
    /\ UNCHANGED host
    /\ UNCHANGED <<serverVars, clientVars, watcherVars, latchVars>>

-----------------------------------------------------------------------------
(* Specifications *)

\* The client before any page has been served to it.
ClientQuiet ==
    /\ auth = NoUser
    /\ user = NULL
    /\ sessionId = UNDEF
    /\ organizationId = UNDEF
    /\ role = UNDEF
    /\ roles = UNDEF
    /\ permissions = UNDEF
    /\ entitlements = UNDEF
    /\ featureFlags = UNDEF
    /\ impersonator = UNDEF
    /\ loading = FALSE
    /\ calls = [c \in CallIds |-> IdleCall]

\* A provider mounted with onSessionExpired = false and no events.
WatcherQuiet ==
    /\ onSessionExpired = "false"
    /\ effects = 1
    /\ listener = 0
    /\ visibilityChangedCalled = [g \in EffectIds |-> FALSE]
    /\ captured = [g \in EffectIds |-> IF g = 1 THEN "false" ELSE UNDEF]
    /\ inflight = [g \in EffectIds |-> 0]
    /\ visibilityState = "visible"
    /\ lastCheck = Checked(0, NoCheckOutcome, "none", UNDEF)

\* A server process with a valid configuration that serves no request.
ServerQuiet ==
    /\ configValid = TRUE
    /\ configValidated = FALSE
    /\ phase = "idle"
    /\ ctxAuth = EmptyObject
    /\ sendAuth = EmptyObject
    /\ ret = NoRet
    /\ other = NoOther

\* No request has entered the middleware.
LatchQuiet ==
    /\ reqs = [r \in ReqIds |-> NewRequest]
    /\ invocations = 0

\* A page in which signOut is never called.
SignOutQuiet ==
    /\ host = "app.example.com"
    /\ signOutCall = IdleSignOut
    /\ href = EmptyString
    /\ routerTo = EmptyString

\* The server process serving its requests.
Init == ServerInit /\ ClientQuiet /\ WatcherQuiet /\ LatchQuiet /\ SignOutQuiet

Next ==
    \/ MiddlewareValidate
    \/ MiddlewareResolve
    \/ RefreshAuth
    \/ SwitchToOrganization
    \/ RefreshAccessToken
    \/ \E session \in Sessions : SessionSettles(session)
    \/ \E outcome \in Outcomes : RefreshSettles(outcome)
    \/ CheckSession
    \/ GetAuth
    \/ GetAccessToken
    \/ NextRequest
    \/ OtherEnters
    \/ OtherResolves
    \/ OtherBegins
    \/ \E session \in Sessions : OtherSessionSettles(session)
    \/ OtherRefreshSettles

Spec == Init /\ [][Next]_vars

\* The auth state of a mounted provider.
InitClient ==
    ServerQuiet /\ ClientInit /\ WatcherQuiet /\ LatchQuiet /\ SignOutQuiet

NextClient ==
    \/ \E c \in CallIds, options \in RefreshAuthArguments :
          CallRefreshAuth(c, options)
    \/ \E c \in CallIds, a \in RefreshAuthReturns : ResolveRefreshAuth(c, a)
    \/ \E c \in CallIds, error \in Rejections : RejectRefreshAuth(c, error)
    \/ \E c \in CallIds, data \in SwitchData :
          CallSwitchToOrganization(c, data["organizationId"])
    \/ \E c \in CallIds, a \in SwitchReturns :
          ResolveSwitchToOrganization(c, a)
    \/ \E c \in CallIds, error \in Rejections :
          RejectSwitchToOrganization(c, error)

SpecClient == InitClient /\ [][NextClient]_vars

\* The expiry watcher of a mounted provider.
InitWatcher ==
    ServerQuiet /\ ClientQuiet /\ WatcherInit /\ LatchQuiet /\ SignOutQuiet

NextWatcher ==
    \/ \E v \in {"visible", "hidden"} : VisibilityChangeEvent(v)
    \/ FocusEvent
    \/ \E g \in EffectIds, outcome \in CheckOutcomes : CheckSettles(g, outcome)
    \/ \E p \in Props : ChangeOnSessionExpired(p)

SpecWatcher == InitWatcher /\ [][NextWatcher]_vars

\* The requests of one server process, in any overlap.
InitLatch == LatchInit /\ ClientQuiet /\ WatcherQuiet /\ SignOutQuiet

NextLatch ==
    \/ \E r \in ReqIds : MiddlewareEnter(r)
    \/ \E r \in ReqIds : MiddlewareResume(r)

SpecLatch == InitLatch /\ [][NextLatch]_vars

\* The sign-out calls of a mounted provider.
InitSignOut == ServerQuiet /\ ClientQuiet /\ WatcherQuiet /\ LatchQuiet /\ SignOutInit

NextSignOut ==
    \/ \E returnTo \in ReturnTos : CallSignOut(returnTo)
    \/ \E outcome \in SignOutOutcomes(host) : SignOutSettles(outcome)

SpecSignOut == InitSignOut /\ [][NextSignOut]_vars

-----------------------------------------------------------------------------
(* Properties of the server (specification Spec) *)

\* The sanitized payloads of the request being served.
Published ==
    phase \in {"resolved", "awaitSession", "awaitRefresh", "done"}
ActionReturned ==
    /\ ret.op \in {"refreshAuth", "switchToOrganization"}
    /\ ret.kind = "return"

\* C1: no sanitized payload, of the middleware, of RefreshAuth or of
\* SwitchToOrganization, has an accessToken property, whatever the resolver
\* and the token refresh returned.
C1_NoAccessToken ==
    /\ Published => ~Has(sendAuth, "accessToken")
    /\ ActionReturned => ~Has(ret.value, "accessToken")

\* C1 witness: RefreshAuth sanitized a refreshed result that carries an
\* access token, in a request whose resolver result carries one too.
C1_Witness ==
    /\ ret.op = "refreshAuth"
    /\ ret.kind = "return"
    /\ ret.called
    /\ Truthy(Get(ret.outcome.result, "user"))
    /\ Truthy(Get(ret.outcome.result, "accessToken"))
    /\ Truthy(Get(ctxAuth, "accessToken"))
    /\ sendAuth # NoUser

\* C2 as stated: in every sanitized payload sessionId is present if and
\* only if user is non-null.
C2_SessionIdIffUser ==
    /\ Published =>
          ((Get(sendAuth, "sessionId") # UNDEF)
              <=> (Get(sendAuth, "user") # NULL))
    /\ ActionReturned =>
          ((Get(ret.value, "sessionId") # UNDEF)
              <=> (Get(ret.value, "user") # NULL))

\* C3: when the resolver result has user = null, the hydration payload is
\* exactly { user: null }.
C3_NullUserPayloadExact ==
    (Published /\ Get(ctxAuth, "user") = NULL) => sendAuth = NoUser

\* C3 witness: a null-user resolver result that carries other properties
\* was published.
C3_Witness ==
    /\ Published
    /\ Get(ctxAuth, "user") = NULL
    /\ Has(ctxAuth, "accessToken")
    /\ Has(ctxAuth, "sessionId")
    /\ Has(ctxAuth, "role")

\* C4: RefreshAuth returns { user: null } without an error and without
\* invoking the token refresh when the context lacks a user, an access
\* token or a session id, or the session is absent or has no refresh token;
\* it returns { user: null } too when the refreshed result has no user.
C4_RefreshAuthShortCircuits ==
    (ret.op = "refreshAuth" /\ phase = "done") =>
        /\ (\/ ~Truthy(Get(ctxAuth, "user"))
            \/ ~Truthy(Get(ctxAuth, "accessToken"))
            \/ ~Truthy(Get(ctxAuth, "sessionId"))
            \/ (ret.sessionRead /\ ~ret.session.present)
            \/ (ret.sessionRead /\ ~Truthy(ret.session.refreshToken)))
           => (ret.kind = "return" /\ ret.value = NoUser /\ ~ret.called)
        /\ (ret.called /\ ~ret.outcome.threw
               /\ ~Truthy(Get(ret.outcome.result, "user")))
           => (ret.kind = "return" /\ ret.value = NoUser)

\* C4 witness: the context passed the first test and the session had no
\* refresh token.
C4_Witness ==
    /\ ret.op = "refreshAuth"
    /\ Truthy(Get(ctxAuth, "sessionId"))
    /\ ret.sessionRead
    /\ ret.session.present
    /\ ~Truthy(ret.session.refreshToken)
    /\ ret.value = NoUser

\* C5 as stated: SwitchToOrganization(org) does what RefreshAuth with
\* organizationId = org does on the same context, session and refresh
\* outcome: the same result, and the token refresh invoked in the same
\* cases.
C5_SwitchSameAsRefresh ==
    (ret.op = "switchToOrganization" /\ phase = "done") =>
        LET r == refreshAuthAction(ctxAuth, ret.session, ret.outcome, ret.data)
        IN  /\ r.kind = ret.kind
            /\ r.value = ret.value
            /\ r.error = ret.error
            /\ r.called = ret.called

-----------------------------------------------------------------------------
(* Properties of the client auth state (specification SpecClient) *)

Starts(c, kind) ==
    /\ calls[c].pc # "waiting"
    /\ calls'[c].pc = "waiting"
    /\ calls'[c].kind = kind
Completes(c, kind) ==
    /\ calls[c].pc = "waiting"
    /\ calls[c].kind = kind
    /\ calls'[c].pc = "done"

\* C6: a refreshAuth call sets loading when it starts and clears it when it
\* completes, resolved or rejected; on a rejection it does not throw, it
\* returns the descriptor { error: message }.
C6_RefreshAuthLoadingAndError ==
    [][\A c \in CallIds :
          /\ Starts(c, "refreshAuth") => loading'
          /\ Completes(c, "refreshAuth") =>
                /\ ~loading'
                /\ calls'[c].settled = "rejected" =>
                      /\ calls'[c].completion.how = "descriptor"
                      /\ calls'[c].thrown.isError =>
                            calls'[c].completion.error
                                = calls'[c].thrown.message
                      /\ ~calls'[c].thrown.isError =>
                            calls'[c].completion.error
                                = calls'[c].thrown.str]_vars

\* C6 witness: a refreshAuth call was rejected with an Error while another
\* call was not outstanding.
C6_Witness ==
    \E c \in CallIds :
       /\ calls[c].kind = "refreshAuth"
       /\ calls[c].settled = "rejected"
       /\ calls[c].thrown.isError
       /\ calls[c].completion = Completion("descriptor", "Refresh failed")
       /\ ~loading

Cleared ==
    [user |-> NULL, sessionId |-> UNDEF, organizationId |-> UNDEF,
     role |-> UNDEF, roles |-> UNDEF, permissions |-> UNDEF,
     entitlements |-> UNDEF, featureFlags |-> UNDEF, impersonator |-> UNDEF]

\* C7: when switchToOrganization gets a result without a user the nine
\* mirrored fields are all cleared; when the result has a user the nine
\* take the result's values; loading is false when the call completes.
C7_SwitchClearsOrOverwritesAll ==
    [][\A c \in CallIds :
          Completes(c, "switchToOrganization") =>
             /\ ~loading'
             /\ calls'[c].settled = "resolved" =>
                   IF ~Truthy(Get(auth', "user"))
                   THEN Mirror' = Cleared
                   ELSE \A k \in ClientKeys : Mirror'[k] = Get(auth', k)]_vars

\* C7 witness: a switch resolved without a user and the fields are cleared.
C7_Witness ==
    \E c \in CallIds :
       /\ calls[c].kind = "switchToOrganization"
       /\ calls[c].settled = "resolved"
       /\ \A d \in CallIds \ {c} : calls[d].pc = "idle"
       /\ auth = NoUser
       /\ Mirror = Cleared

\* C8: after a refreshAuth call resolves, each mirrored field is the
\* result's property of that name, and undefined when the result has none.
C8_RefreshReplacesAllFields ==
    [][\A c \in CallIds :
          (Completes(c, "refreshAuth") /\ calls'[c].settled = "resolved") =>
              \A k \in ClientKeys :
                 Mirror'[k] = IF Has(auth', k) THEN auth'[k] ELSE UNDEF]_vars

\* C8 witness: a refreshAuth resolved with a user and without role and
\* organizationId, and the two fields are undefined.
C8_Witness ==
    \E c \in CallIds :
       /\ calls[c].kind = "refreshAuth"
       /\ calls[c].settled = "resolved"
       /\ \A d \in CallIds \ {c} : calls[d].pc = "idle"
       /\ Truthy(auth["user"])
       /\ ~Has(auth, "role")
       /\ Has(auth, "roles")
       /\ role = UNDEF
       /\ roles = "roles_1"

\* C9: every step either leaves the nine mirrored fields as they are or
\* makes all nine the fields of one result; no step mixes old and new.
C9_SingleTransition ==
    [][\/ Mirror' = Mirror
       \/ \A k \in ClientKeys : Mirror'[k] = Get(auth', k)]_vars

\* C9 witness: a call resolved with a user while another is outstanding.
C9_Witness ==
    \E c, d \in CallIds :
       /\ calls[c].pc = "done"
       /\ calls[c].settled = "resolved"
       /\ calls[d].pc = "waiting"
       /\ Truthy(user)
       /\ Mirror = [k \in ClientKeys |-> Get(auth, k)]

-----------------------------------------------------------------------------
(* Properties of the expiry watcher (specification SpecWatcher) *)

RECURSIVE SumTo(_, _)
SumTo(f, n) == IF n = 0 THEN 0 ELSE f[n] + SumTo(f, n - 1)
\* The checkSessionAction calls the watcher has issued and not seen settle.
ChecksInFlight == SumTo(inflight, MaxEffects)

\* C10 as stated: at most one watcher-issued check is in flight, and while
\* one is in flight no event issues another.
C10_SingleCheckInFlight ==
    [][/\ ChecksInFlight' <= 1
       /\ ChecksInFlight >= 1 => ChecksInFlight' <= ChecksInFlight]_vars

\* A visibilitychange or a focus event is dispatched in this step.
EventStep ==
    \/ FocusEvent
    \/ \E v \in {"visible", "hidden"} : VisibilityChangeEvent(v)

\* The check of closure g settles in this step.
SettleStep(g) == inflight'[g] = inflight[g] - 1

\* A connectivity failure: the call rejected with an Error whose message
\* contains 'Failed to fetch'.
ConnectivityFailure(outcome) ==
    /\ outcome.settled = "rejected"
    /\ outcome.isError
    /\ Includes(outcome.message, "Failed to fetch")

\* C11: an event that finds a handler registered, the tab visible and no
\* check in flight issues one CheckSession call; when a check settles, the
\* expiry handling runs if and only if the check failed with a connectivity
\* failure, and it is the callback the closure was given when there is one
\* and a reload otherwise; true, false and any other failure handle nothing.
C11_ExpiryHandlingIffConnectivity ==
    [][/\ (EventStep /\ listener # 0 /\ visibilityState' = "visible"
              /\ ChecksInFlight = 0)
          => (ChecksInFlight' = 1 /\ inflight'[listener] = 1)
       /\ \A g \in EffectIds :
             SettleStep(g) =>
                /\ lastCheck'.effect = g
                /\ (lastCheck'.handling # "none")
                      <=> ConnectivityFailure(lastCheck'.outcome)
                /\ ConnectivityFailure(lastCheck'.outcome) =>
                      IF captured[g] \in {"callback_1", "callback_2"}
                      THEN /\ lastCheck'.handling = "callback"
                           /\ lastCheck'.callback = captured[g]
                      ELSE /\ lastCheck'.handling = "reload"
                           /\ lastCheck'.callback = UNDEF]_vars

\* C11 witness: a check failed with 'Failed to fetch' inside a longer
\* message and the supplied callback was invoked.
C11_Witness ==
    /\ lastCheck.handling = "callback"
    /\ lastCheck.callback = "callback_1"
    /\ Len(lastCheck.outcome.message) = 3
    /\ ChecksInFlight = 0

\* The provider was mounted with onSessionExpired = false and has not been
\* rendered with another value since.
MountedDisabled == onSessionExpired = "false" /\ effects = 1

\* C12: mounted with onSessionExpired = false, no listener is registered
\* and no visibility or focus event causes a CheckSession call, a callback
\* invocation or a reload.
C12_DisabledWatcherDoesNothing ==
    [][(MountedDisabled /\ MountedDisabled') =>
          /\ listener = 0 /\ listener' = 0
          /\ ChecksInFlight' = 0
          /\ lastCheck'.handling = "none"
          /\ UNCHANGED <<inflight, visibilityChangedCalled, lastCheck>>]_vars

\* C12 witness: a disabled watcher after the tab went from visible to hidden
\* or back, with nothing issued.
C12_Witness ==
    /\ MountedDisabled
    /\ listener = 0
    /\ visibilityState = "hidden"
    /\ ChecksInFlight = 0

-----------------------------------------------------------------------------
(* Further properties of the client auth state (specification SpecClient) *)

\* No operation has been invoked since the provider mounted.
JustMounted == \A c \in CallIds : calls[c] = IdleCall

\* C14: right after mount the nine fields are those of the hydration
\* payload ({ user: null } when there is none), loading is false, and no
\* server action has been called.
C14_MountMirrorsHydration ==
    JustMounted =>
        /\ \A k \in ClientKeys : Mirror[k] = Get(auth, k)
        /\ ~loading
        /\ \A c \in CallIds : calls[c].pc # "waiting"
        /\ ChecksInFlight = 0

\* C14 witness: mounted from the payload of a signed-in request that has
\* every property.
C14_Witness ==
    /\ JustMounted
    /\ user = "user_1"
    /\ sessionId = "session_1"
    /\ organizationId = "org_1"
    /\ roles = "roles_1"
    /\ permissions = "permissions_1"
    /\ featureFlags = "flag_1"
    /\ impersonator = "impersonator_1"

\* C18: when no call is outstanding any more, the nine fields are those of
\* the result that resolved last, whichever call was invoked first; a
\* rejected call leaves no trace in them.
C18_LastResolutionWins ==
    (\A c \in CallIds : calls[c].pc # "waiting") =>
        \A k \in ClientKeys : Mirror[k] = Get(auth, k)

\* C18 witness: a refreshAuth and a switchToOrganization both resolved, and
\* the result that resolved last has no user.
C18_Witness ==
    /\ \A c \in CallIds : calls[c].pc = "done" /\ calls[c].settled = "resolved"
    /\ \E c, d \in CallIds :
          /\ calls[c].kind = "refreshAuth"
          /\ calls[d].kind = "switchToOrganization"
    /\ auth = NoUser
    /\ user = NULL

\* C20: in every client state that starts from a middleware payload and
\* goes through results of the server actions, user = null implies that the
\* other eight fields are undefined.
C20_NullUserMeansNothingElse ==
    user = NULL => Mirror = Cleared

\* C20 witness: a signed-in client lost its user to a refreshAuth result.
C20_Witness ==
    /\ user = NULL
    /\ \E c \in CallIds :
          /\ calls[c].kind = "refreshAuth"
          /\ calls[c].settled = "resolved"
    /\ \E c \in CallIds :
          /\ calls[c].kind = "switchToOrganization"
          /\ calls[c].settled = "rejected"
    /\ auth = NoUser

-----------------------------------------------------------------------------
(* Further properties of the server (specification Spec) *)

\* C16: CheckSession returns true if and only if the auth resolved for the
\* request has a non-null user, and it changes nothing: not the latch, not
\* the two channels, and it asks neither for the session nor for a token
\* refresh, so its answer depends on the resolved auth alone.
C16_CheckSessionProbe ==
    [][ret'.op = "checkSession" =>
          /\ ret'.kind = "return"
          /\ ret'.value = (Get(ctxAuth, "user") # NULL)
          /\ ~ret'.sessionRead
          /\ ~ret'.called
          /\ UNCHANGED <<configValid, configValidated, ctxAuth, sendAuth>>]_vars

\* C16 witness: CheckSession answered true for a user whose resolved auth
\* has neither a session id nor an access token.
C16_Witness ==
    /\ ret.op = "checkSession"
    /\ ret.value = TRUE
    /\ ctxAuth["user"] = "user_1"
    /\ ~Has(ctxAuth, "sessionId")
    /\ ~Has(ctxAuth, "accessToken")

\* C17 as stated: no value sent to the browser as a sanitized projection,
\* by getAuthAction, refreshAuthAction, switchToOrganizationAction or the
\* middleware, has a raw claims property.
C17_NoRawClaims ==
    /\ Published => ~Has(sendAuth, "claims")
    /\ (/\ ret.op \in {"getAuth", "refreshAuth", "switchToOrganization"}
        /\ ret.kind = "return")
       => ~Has(ret.value, "claims")

-----------------------------------------------------------------------------
(* Properties of the concurrent middleware (specification SpecLatch) *)

Invoked(r) == reqs[r].seq >= 1

\* C13 as stated: validateConfig runs during the first middleware invocation
\* of the process and during no later one, and an invocation in which it
\* throws calls neither the Auth Resolver nor args.next.
C13_ValidatesOnlyFirst ==
    \A r \in ReqIds : Invoked(r) =>
        /\ reqs[r].validated <=> reqs[r].seq = 1
        /\ reqs[r].pc = "failed" => ~reqs[r].resolver /\ ~reqs[r].channels

\* C13, amended: validateConfig runs during every middleware invocation up to
\* and including the first one in which it returns without throwing, and
\* during none after that one; an invocation in which it throws ends there,
\* before the Auth Resolver is invoked and before either channel is populated.
C13_ValidatesUntilSuccess ==
    \A r \in ReqIds : Invoked(r) =>
        /\ reqs[r].validated <=>
              \A q \in ReqIds :
                  (Invoked(q) /\ reqs[q].seq < reqs[r].seq) =>
                      reqs[q].pc = "failed"
        /\ (reqs[r].validated /\ ~configValid) <=> reqs[r].pc = "failed"
        /\ reqs[r].pc = "failed" => ~reqs[r].resolver /\ ~reqs[r].channels
        /\ reqs[r].pc \in {"awaiting", "served"} => reqs[r].resolver
        /\ reqs[r].channels <=> reqs[r].pc = "served"

\* Two invocations in a row found the configuration invalid.
C13_Witness ==
    \E r, q \in ReqIds :
        /\ reqs[r].seq = 1 /\ reqs[r].pc = "failed" /\ reqs[r].validated
        /\ reqs[q].seq = 2 /\ reqs[q].pc = "failed" /\ reqs[q].validated

\* C19: the latch only ever changes from false to true, in a step in which
\* validateConfig returned without throwing, and never back, however the
\* requests overlap; every request entering the middleware reads it, and
\* calls validateConfig exactly when it reads false.
C19_LatchSetOnce ==
    [][ /\ configValidated' # configValidated =>
              /\ ~configValidated
              /\ configValidated'
              /\ configValid
              /\ \E r \in ReqIds :
                    /\ reqs[r].pc = "new"
                    /\ reqs'[r].pc = "awaiting"
                    /\ reqs'[r].validated
        /\ configValidated => configValidated'
        /\ \A r \in ReqIds :
              (reqs[r].pc = "new" /\ reqs'[r].pc # "new") =>
                  (reqs'[r].validated <=> ~configValidated)
      ]_vars

\* The latch is set while two requests are suspended in the middleware and a
\* third has been served.
C19_Witness ==
    /\ configValidated
    /\ \E r, q, t \in ReqIds :
          /\ r # q
          /\ reqs[r].pc = "awaiting"
          /\ reqs[q].pc = "awaiting"
          /\ reqs[t].pc = "served"

-----------------------------------------------------------------------------
(* Properties of the client sign-out (specification SpecSignOut) *)

\* The host a Location leads to from a page on host h: the authority of an
\* absolute or protocol-relative URL, h itself for a relative reference.
DestinationHost(location, h) ==
    IF /\ Len(location) >= 3
       /\ location[1] = "http"
       /\ location[2] \in {"://", "s://"}
    THEN location[3]
    ELSE IF Len(location) >= 2 /\ location[1] = "//"
    THEN location[2]
    ELSE h

CarriesLocation(outcome) ==
    /\ outcome.kind = "response"
    /\ outcome.hasLocation
    /\ outcome.location # EmptyString

\* C15: signOut calls SignOut with the given returnTo; on a redirect signal
\* carrying a Location it returns after exactly one navigation, a full page
\* load when the destination host differs from the current host and a router
\* navigation otherwise; every other failure is re-thrown unchanged.
C15_SignOutNavigation ==
    /\ signOutCall.pc # "idle" =>
          signOutCall.data["returnTo"] = signOutCall.returnTo
    /\ signOutCall.pc = "done" =>
          LET outcome == signOutCall.outcome
              result == signOutCall.result
          IN  /\ CarriesLocation(outcome) =>
                    /\ result.completion = "returned"
                    /\ result.assigned # result.navigated
                    /\ result.location = outcome.location
                    /\ result.assigned <=>
                          DestinationHost(outcome.location, host) # host
              /\ (outcome.kind # "resolved" /\ ~CarriesLocation(outcome)) =>
                    /\ result.completion = "threw"
                    /\ result.rethrown = outcome
                    /\ ~result.assigned
                    /\ ~result.navigated

-----------------------------------------------------------------------------
(* Properties of failed and overlapping client calls (specification
   SpecClient) *)

\* Call c is started, or its server call rejects, in this step.
StartsCall(c) == calls[c].pc # "waiting" /\ calls'[c].pc = "waiting"
Rejects(c) == calls[c].pc = "waiting" /\ calls'[c].settled = "rejected"

\* C21: the step in which the server call of refreshAuth or of
\* switchToOrganization rejects changes none of the nine mirrored fields and
\* leaves loading false; the step that started the call changed none of the
\* nine fields either, so a failed call changes nothing but loading.
C21_RejectionKeepsMirror ==
    [][\A c \in CallIds :
          /\ Rejects(c) => mirrorVars' = mirrorVars /\ loading' = FALSE
          /\ StartsCall(c) => mirrorVars' = mirrorVars
      ]_vars

\* A call of each kind has failed in a signed-in client.
C21_Witness ==
    /\ user # NULL
    /\ ~loading
    /\ \E c, d \in CallIds :
          /\ calls[c].kind = "refreshAuth"
          /\ calls[c].settled = "rejected"
          /\ calls[d].kind = "switchToOrganization"
          /\ calls[d].settled = "rejected"

InFlight == \E c \in CallIds : calls[c].pc = "waiting"

\* C22: loading is true exactly while at least one refreshAuth or
\* switchToOrganization call is in flight, also when calls overlap and
\* complete at different times.
C22_LoadingIffInFlight == loading <=> InFlight

====
